---------------------------- MODULE Spec2Model ----------------------------
(***************************************************************************)
(* Excel to 3D Chart Visualizer: the Workflow Controller (App), the        *)
(* Tabular Loader (FileUpload), the Column Classifier and Chart Data       *)
(* Builder (DataPreview), the chart controls (ChartControls) and the       *)
(* resource lifecycle of the Scene Renderer (Chart3D).                     *)
(*                                                                         *)
(* Text is a sequence of one-character strings, so that parseFloat,        *)
(* Number, String and trim are computed character by character.  A cell    *)
(* is a tagged record: a number, a text, or undefined.                     *)
(***************************************************************************)
EXTENDS Integers, Sequences, FiniteSets, TLC

(***************************************************************************)
(* Bounds of the model.                                                    *)
(***************************************************************************)
\* scenes built after which no reconfiguration is tried; a chart is still
\* generated once more, so that 'chart' is entered again after one
MaxScenes == 2
\* processFile continuations that may be suspended at the await at once
MaxPending == 2
\* most Row Records of the Chart Data Builder's input space
MaxRows == 2

(***************************************************************************)
(* JavaScript values.                                                      *)
(***************************************************************************)
NULL == [t |-> "null"]
Undef == [t |-> "undef"]
\* an index of a sparse array that holds no element
Hole == [t |-> "hole"]
NaN == [t |-> "nan"]
Num(n) == [t |-> "num", n |-> n]
Str(s) == [t |-> "str", s |-> s]

IsWhite(c) == c = " "
IsDigit(c) == c \in {"0", "1", "2", "3", "4", "5", "6", "7", "8", "9"}
DigitVal(c) ==
  CASE c = "0" -> 0 [] c = "1" -> 1 [] c = "2" -> 2 [] c = "3" -> 3
    [] c = "4" -> 4 [] c = "5" -> 5 [] c = "6" -> 6 [] c = "7" -> 7
    [] c = "8" -> 8 [] c = "9" -> 9
DigitChar(d) ==
  CASE d = 0 -> "0" [] d = 1 -> "1" [] d = 2 -> "2" [] d = 3 -> "3"
    [] d = 4 -> "4" [] d = 5 -> "5" [] d = 6 -> "6" [] d = 7 -> "7"
    [] d = 8 -> "8" [] d = 9 -> "9"

RECURSIVE NatToStr(_)
NatToStr(n) ==
  IF n < 10 THEN <<DigitChar(n)>>
  ELSE NatToStr(n \div 10) \o <<DigitChar(n % 10)>>

\* Number.prototype.toString of an integer
IntToStr(n) == IF n < 0 THEN <<"-">> \o NatToStr(0 - n) ELSE NatToStr(n)

RECURSIVE SkipWhite(_)
SkipWhite(s) ==
  IF s # <<>> /\ IsWhite(Head(s)) THEN SkipWhite(Tail(s)) ELSE s

RECURSIVE DropTrailingWhite(_)
DropTrailingWhite(s) ==
  IF s # <<>> /\ IsWhite(s[Len(s)])
  THEN DropTrailingWhite(SubSeq(s, 1, Len(s) - 1))
  ELSE s

\* String.prototype.trim
Trim(s) == DropTrailingWhite(SkipWhite(s))

\* the longest prefix of s made of digits
RECURSIVE DigitPrefix(_)
DigitPrefix(s) ==
  IF s # <<>> /\ IsDigit(Head(s)) THEN <<Head(s)>> \o DigitPrefix(Tail(s))
  ELSE <<>>

RECURSIVE DigitsVal(_, _)
DigitsVal(s, acc) ==
  IF s = <<>> THEN acc ELSE DigitsVal(Tail(s), acc * 10 + DigitVal(Head(s)))

\* String(value)
StringOf(v) ==
  CASE v.t = "num" -> IntToStr(v.n)
    [] v.t = "str" -> v.s
    [] v.t = "undef" -> <<"u", "n", "d", "e", "f", "i", "n", "e", "d">>
    [] v.t = "null" -> <<"n", "u", "l", "l">>

\* parseFloat of a text: leading white space is skipped, then an optional
\* sign and the longest run of digits are read; what follows is ignored.
ParseFloatStr(s) ==
  LET body == SkipWhite(s)
      neg == body # <<>> /\ Head(body) = "-"
      rest == IF neg THEN Tail(body) ELSE body
      digits == DigitPrefix(rest)
  IN  IF digits = <<>> THEN NaN
      ELSE Num(IF neg THEN 0 - DigitsVal(digits, 0) ELSE DigitsVal(digits, 0))

\* parseFloat(value): the argument is first converted with String
parseFloat(v) == ParseFloatStr(StringOf(v))

\* Number(value), the conversion isFinite applies to its argument: the whole
\* trimmed text must be a number, and the empty text is 0.
ToNumber(v) ==
  CASE v.t = "num" -> v
    [] v.t = "undef" -> NaN
    [] v.t = "null" -> Num(0)
    [] v.t = "str" ->
         LET body == Trim(v.s)
             neg == body # <<>> /\ Head(body) = "-"
             rest == IF neg THEN Tail(body) ELSE body
         IN  IF body = <<>> THEN Num(0)
             ELSE IF rest # <<>> /\ DigitPrefix(rest) = rest
             THEN Num(IF neg THEN 0 - DigitsVal(rest, 0) ELSE DigitsVal(rest, 0))
             ELSE NaN

isNaN(v) == v.t = "nan"
isFinite(v) == ToNumber(v).t = "num"


Range(f) == {f[i] : i \in DOMAIN f}

(***************************************************************************)
(* Tabular Loader: FileUpload.processFile.  A file is what XLSX.read and   *)
(* sheet_to_json(worksheet, {header: 1}) make of it: either the read       *)
(* throws (an Error or some other value), or it yields jsonData, a         *)
(* sequence of rows, each a sequence of cells.  sheet_to_json assigns no   *)
(* element for an empty cell, so a row is a sparse array.  In a data row   *)
(* the hole of an empty cell is written Undef: some() skips it, which is   *)
(* what its predicate answers for undefined, and row[colIndex] reads       *)
(* undefined.  In the header row it is written Hole: firstRow.map does not *)
(* call its callback for it and leaves a hole in headers, and              *)
(* headers.forEach skips that hole.                                        *)
(***************************************************************************)
IsBlankCell(c) == c.t = "undef" \/ c.t = "null" \/ c = Str(<<>>)

ColumnPrefix == <<"C", "o", "l", "u", "m", "n", "_">>

\* headers: a blank header gets a placeholder indexed by position, any
\* other header is its trimmed string form; headers is the sparse array of
\* the indices map visits, a function on those indices
Headers(firstRow) ==
  [index \in {i \in 1..Len(firstRow) : firstRow[i].t # "hole"} |->
     IF IsBlankCell(firstRow[index])
     THEN ColumnPrefix \o IntToStr(index)
     ELSE Trim(StringOf(firstRow[index]))]

\* the filter's predicate: the row has a cell that is not blank
RowHasData(row) == \E i \in 1..Len(row) : ~IsBlankCell(row[i])

RECURSIVE FilterRows(_)
FilterRows(rows) ==
  IF rows = <<>> THEN <<>>
  ELSE IF RowHasData(Head(rows)) THEN <<Head(rows)>> \o FilterRows(Tail(rows))
  ELSE FilterRows(Tail(rows))

\* obj[header] = cellValue, for each header in order: a later column of the
\* same name overwrites an earlier one, a missing cell becomes ''
RowToRecord(headers, row) ==
  [h \in Range(headers) |->
     LET colIndex == CHOOSE i \in DOMAIN headers :
                       /\ headers[i] = h
                       /\ \A j \in DOMAIN headers : headers[j] = h => j <= i
         cellValue == IF colIndex <= Len(row) THEN row[colIndex] ELSE Undef
     IN  IF cellValue.t # "undef" /\ cellValue.t # "null"
         THEN cellValue ELSE Str(<<>>)]

RowsToRecords(headers, rows) ==
  [i \in 1..Len(rows) |-> RowToRecord(headers, rows[i])]

\* a message text; the row count of the success message is kept apart
Message(text) == [t |-> "message", text |-> text]

EmptyFileMessage == Message("The file appears to be empty")
NoRowsMessage == Message("No valid data rows found in the file")
FallbackMessage == Message("Failed to process file")
LibraryMessage == Message("the message of the Error the read threw")

\* the try block of processFile: the Row Records, or the value thrown
TryProcessFileLax(file) ==
  IF file.throws = "error" THEN [ok |-> FALSE, isError |-> TRUE, message |-> LibraryMessage]
  ELSE IF file.throws = "other" THEN [ok |-> FALSE, isError |-> FALSE, message |-> NULL]
  ELSE IF Len(file.sheet) = 0
  THEN [ok |-> FALSE, isError |-> TRUE, message |-> EmptyFileMessage]
  ELSE [ok |-> TRUE,
        data |-> RowsToRecords(Headers(Head(file.sheet)), FilterRows(Tail(file.sheet)))]

TryProcessFile(file) ==
  IF file.throws = "error" THEN [ok |-> FALSE, isError |-> TRUE, message |-> LibraryMessage]
  ELSE IF file.throws = "other" THEN [ok |-> FALSE, isError |-> FALSE, message |-> NULL]
  ELSE IF Len(file.sheet) = 0
  THEN [ok |-> FALSE, isError |-> TRUE, message |-> EmptyFileMessage]
  ELSE LET firstRow == Head(file.sheet)
           headers == Headers(firstRow)
           rows == Tail(file.sheet)
           data == RowsToRecords(headers, FilterRows(rows))
       IN  IF Len(data) = 0
           THEN [ok |-> FALSE, isError |-> TRUE, message |-> NoRowsMessage]
           ELSE [ok |-> TRUE, data |-> data]

\* a catch block that reads err.message of whatever was thrown
CatchMessageUnchecked(thrown) == thrown.message

\* the catch block: err instanceof Error ? err.message : fallback
CatchMessage(thrown) == IF thrown.isError THEN thrown.message ELSE FallbackMessage

SuccessMessage(data) ==
  [t |-> "message", text |-> "Successfully loaded ${data.length} rows of data",
   length |-> Len(data)]
SampleMessage == Message("Sample data loaded successfully")

(***************************************************************************)
(* The sample data of loadSampleData.                                      *)
(***************************************************************************)
Product == <<"P", "r", "o", "d", "u", "c", "t">>
Q1 == <<"Q", "1">>
Q2 == <<"Q", "2">>
Q3 == <<"Q", "3">>
Q4 == <<"Q", "4">>

SampleRow(name, a, b, c, d) ==
  (Product :> Str(name)) @@ (Q1 :> Num(a)) @@ (Q2 :> Num(b))
    @@ (Q3 :> Num(c)) @@ (Q4 :> Num(d))

sampleData ==
  << SampleRow(<<"L", "a", "p", "t", "o", "p", "s">>, 120, 135, 148, 162),
     SampleRow(<<"S", "m", "a", "r", "t", "p", "h", "o", "n", "e", "s">>, 200, 220, 195, 240),
     SampleRow(<<"T", "a", "b", "l", "e", "t", "s">>, 80, 75, 90, 85),
     SampleRow(<<"H", "e", "a", "d", "p", "h", "o", "n", "e", "s">>, 150, 165, 180, 175),
     SampleRow(<<"S", "m", "a", "r", "t", "w", "a", "t", "c", "h", "e", "s">>, 60, 70, 85, 95),
     SampleRow(<<"C", "a", "m", "e", "r", "a", "s">>, 45, 50, 55, 48) >>

(***************************************************************************)
(* Column Classifier and Chart Data Builder: DataPreview.                  *)
(***************************************************************************)
columns(data) == IF Len(data) = 0 THEN {} ELSE DOMAIN data[1]

\* a classifier that asks parseFloat alone
numericColumnsByPrefix(data) ==
  IF Len(data) = 0 THEN {}
  ELSE {col \in columns(data) :
          \E i \in 1..Len(data) :
            LET value == IF col \in DOMAIN data[i] THEN data[i][col] ELSE Undef
            IN  ~isNaN(parseFloat(value))}

numericColumns(data) ==
  IF Len(data) = 0 THEN {}
  ELSE {col \in columns(data) :
          \E i \in 1..Len(data) :
            LET value == IF col \in DOMAIN data[i] THEN data[i][col] ELSE Undef
            IN  ~isNaN(parseFloat(value)) /\ isFinite(value)}

\* columns.filter(col => !numericColumns.includes(col))
ExcludeColumns(cols, excluded) == {col \in cols : col \notin excluded}

stringColumns(data) ==
  IF Len(data) = 0 THEN {}
  ELSE ExcludeColumns(columns(data), numericColumns(data))

\* row[col], undefined when the row has no such key
CellOf(row, col) == IF col \in DOMAIN row THEN row[col] ELSE Undef

\* parseFloat(cell) || 0
ValueOrZero(cell) ==
  LET parsed == parseFloat(cell)
  IN  IF isNaN(parsed) \/ parsed.n = 0 THEN 0 ELSE parsed.n

RECURSIVE DropUnparsed(_, _)
DropUnparsed(data, col) ==
  IF data = <<>> THEN <<>>
  ELSE IF isNaN(parseFloat(CellOf(Head(data), col))) THEN DropUnparsed(Tail(data), col)
  ELSE <<Head(data)>> \o DropUnparsed(Tail(data), col)

\* a builder that leaves out the rows whose value cell does not parse
BuildChartDataSkipping(data, xColumn, yColumn) ==
  LET kept == DropUnparsed(data, yColumn)
  IN  [labels |-> [i \in 1..Len(data) |-> StringOf(CellOf(data[i], xColumn))],
       values |-> [i \in 1..Len(kept) |-> ValueOrZero(CellOf(kept[i], yColumn))]]

BuildChartData(data, xColumn, yColumn) ==
  [labels |-> [i \in 1..Len(data) |-> StringOf(CellOf(data[i], xColumn))],
   values |-> [i \in 1..Len(data) |-> ValueOrZero(CellOf(data[i], yColumn))]]

\* a configuration built with the two column names left out
NewConfigWithoutColumns(xColumn, yColumn) ==
  [xColumn |-> <<>>, yColumn |-> <<>>, colorScheme |-> "blue",
   showGrid |-> TRUE, chartHeight |-> 10]

\* the configuration generateChart builds
NewConfig(xColumn, yColumn) ==
  [xColumn |-> xColumn, yColumn |-> yColumn, colorScheme |-> "blue",
   showGrid |-> TRUE, chartHeight |-> 10]

\* the initial value of App's chartConfig
InitConfig ==
  [xColumn |-> <<>>, yColumn |-> <<>>, colorScheme |-> "blue",
   showGrid |-> TRUE, chartHeight |-> 10]

(***************************************************************************)
(* ChartControls: the values the controls offer.                           *)
(***************************************************************************)
ColorSchemes == {"blue", "green", "purple", "orange", "red"}
MinChartHeight == 5
MaxChartHeight == 20
ChartHeights == MinChartHeight..MaxChartHeight
\* the slider positions the model tries: its two ends
HeightChoices == {MinChartHeight, MaxChartHeight}

\* updateConfig: { ...config, ...updates }
MergeConfig(config, field, value) == [config EXCEPT ![field] = value]


(***************************************************************************)
(* Scene Renderer: what one run of the Chart3D effect acquires and what    *)
(* its cleanup releases.  A scene is named by its serial number.           *)
(***************************************************************************)
\* addEventListener calls of the effect, on the canvas and on window
SceneListeners(s) ==
  {<<"mousedown", s>>, <<"mousemove", s>>, <<"mouseup", s>>, <<"wheel", s>>,
   <<"resize", s>>}

\* a cleanup that forgets the window's resize listener
CleanupRemovesCanvasOnly(s) ==
  {<<"mousedown", s>>, <<"mousemove", s>>, <<"mouseup", s>>, <<"wheel", s>>}

\* removeEventListener calls of the cleanup
CleanupRemoves(s) ==
  {<<"resize", s>>, <<"mousedown", s>>, <<"mousemove", s>>, <<"mouseup", s>>,
   <<"wheel", s>>}

\* the redraw loops still scheduled after the cleanup of scene s: the
\* cleanup holds no handle of requestAnimationFrame and cancels nothing
LoopsAfterCleanup(scheduled, s) == scheduled

(***************************************************************************)
(* Scene Renderer: the bars one run of the effect builds from data and     *)
(* config.  A height is NaN, an infinity, or the exact quotient num / den  *)
(* with den > 0; chartHeight is positive, so multiplying by it keeps NaN   *)
(* and the sign of an infinity.  A position is kept in tenths.             *)
(***************************************************************************)
PosInfinity == [t |-> "+inf"]
NegInfinity == [t |-> "-inf"]
Ratio(num, den) == [t |-> "ratio", num |-> num, den |-> den]

\* Math.max(...values), -Infinity of no argument
MathMax(values) ==
  IF values = <<>> THEN NegInfinity
  ELSE Num(CHOOSE m \in Range(values) : \A v \in Range(values) : v <= m)

\* (value / maxValue) * config.chartHeight
barHeight(value, maxValue, chartHeight) ==
  IF maxValue.t # "num" THEN Ratio(0, 1)
  ELSE IF maxValue.n = 0
  THEN IF value = 0 THEN NaN ELSE IF value > 0 THEN PosInfinity ELSE NegInfinity
  ELSE IF maxValue.n > 0 THEN Ratio(value * chartHeight, maxValue.n)
  ELSE Ratio((0 - value) * chartHeight, 0 - maxValue.n)

BarHeights(data, config) ==
  [k \in 1..Len(data.values) |->
     barHeight(data.values[k], MathMax(data.values), config.chartHeight)]

\* bar.position.x in tenths for the bar of forEach index `index`, of
\* `length` bars: (index - length / 2) * 1.2 = (2 * index - length) * 0.6
BarX10(index, length) == (2 * index - length) * 6

\* the x positions of the bars, entry k for forEach index k - 1
BarPositions(data) ==
  [k \in 1..Len(data.values) |-> BarX10(k - 1, Len(data.values))]

(***************************************************************************)
(* The files the user may drop.                                            *)
(***************************************************************************)
Sheet(rows) == [throws |-> "none", sheet |-> rows]
HeaderKV == <<Str(<<"k">>), Str(<<"v">>)>>

Files ==
  { [throws |-> "error", sheet |-> <<>>],
    [throws |-> "other", sheet |-> <<>>],
    Sheet(<<>>),
    Sheet(<<HeaderKV>>),
    Sheet(<<HeaderKV, <<>>, <<Str(<<>>), Undef>>>>),
    Sheet(<<HeaderKV, <<Str(<<"a">>), Num(7)>>, <<>>, <<Str(<<"b">>), Str(<<"7", "a">>)>>>>),
    Sheet(<<<<Str(<<"k", " ">>), Undef>>, <<Str(<<"a">>)>>, <<Undef, Str(<<"-">>)>>,
            <<Num(0), Num(0 - 3)>>>>),
    Sheet(<<HeaderKV, <<Str(<<"a">>), Str(<<"b">>)>>>>) }

(***************************************************************************)
(* State.                                                                  *)
(***************************************************************************)
VARIABLES
  rawData, chartData, chartConfig, currentStep,   \* App
  isProcessing, error, success,                   \* FileUpload
  pending,          \* the files of the processFile calls suspended at the await
  selectedXColumn, selectedYColumn,               \* DataPreview
  scene,            \* the scene of the mounted Chart3D, 0 when none
  sceneCount,       \* the scenes built so far
  listeners,        \* the registered event listeners
  canvases,         \* the scenes whose canvas is a child of the mount element
  disposed,         \* the scenes whose renderer is disposed
  loops,            \* the scenes whose animate is scheduled for the next frame
  deliveries,       \* history: onFileUpload calls since FileUpload was mounted
  charted,          \* history: a chart was generated from the stored Row Records
  reconfigured      \* history: updateConfig has run

appVars == <<rawData, chartData, chartConfig, currentStep>>
uploadVars == <<isProcessing, error, success, pending>>
previewVars == <<selectedXColumn, selectedYColumn>>
sceneVars == <<scene, sceneCount, listeners, canvases, disposed, loops>>
histVars == <<deliveries, charted, reconfigured>>
vars == <<appVars, uploadVars, previewVars, sceneVars, histVars>>

Init ==
  /\ rawData = <<>>
  /\ chartData = NULL
  /\ chartConfig = InitConfig
  /\ currentStep = "upload"
  /\ isProcessing = FALSE
  /\ error = NULL
  /\ success = NULL
  /\ pending = <<>>
  /\ selectedXColumn = <<>>
  /\ selectedYColumn = <<>>
  /\ scene = 0
  /\ sceneCount = 0
  /\ listeners = {}
  /\ canvases = {}
  /\ disposed = {}
  /\ loops = {}
  /\ deliveries = 0
  /\ charted = FALSE
  /\ reconfigured = FALSE

(***************************************************************************)
(* Chart3D's effect.                                                       *)
(***************************************************************************)
\* the effect body: build scene sceneCount + 1, attach its canvas, register
\* its listeners, and call animate(), which schedules itself and renders
EffectSetup(ls, cs, lp) ==
  LET s == sceneCount + 1
  IN  /\ scene' = s
      /\ sceneCount' = s
      /\ canvases' = cs \cup {s}
      /\ listeners' = ls \cup SceneListeners(s)
      /\ loops' = lp \cup {s}

\* Chart3D is mounted: the effect runs for the first time
EffectMount ==
  /\ disposed' = disposed
  /\ EffectSetup(listeners, canvases, loops)

\* Chart3D is unmounted: the cleanup alone
EffectUnmount ==
  /\ scene' = 0
  /\ sceneCount' = sceneCount
  /\ listeners' = listeners \ CleanupRemoves(scene)
  /\ canvases' = canvases \ {scene}
  /\ disposed' = disposed \cup {scene}
  /\ loops' = LoopsAfterCleanup(loops, scene)

\* data or config changed: the cleanup of the old scene, then the effect
EffectRerun ==
  /\ disposed' = disposed \cup {scene}
  /\ EffectSetup(listeners \ CleanupRemoves(scene), canvases \ {scene},
                 LoopsAfterCleanup(loops, scene))

\* animate: requestAnimationFrame(animate), then render
animate(s) ==
  /\ s \in loops
  /\ loops' = loops
  /\ UNCHANGED <<appVars, uploadVars, previewVars, histVars>>
  /\ UNCHANGED <<scene, sceneCount, listeners, canvases, disposed>>

(***************************************************************************)
(* App: the Workflow Controller's handlers.  Rendering after a handler     *)
(* mounts and unmounts the stage components: a component mounted again     *)
(* starts from its useState initial values, and until then its variables   *)
(* keep the values its handlers assigned last.                             *)
(***************************************************************************)
handleFileUpload(data) ==
  /\ rawData' = data
  /\ currentStep' = "preview"
  /\ UNCHANGED <<chartData, chartConfig>>
  /\ deliveries' = deliveries + 1
  /\ charted' = FALSE
  /\ UNCHANGED reconfigured
  /\ IF currentStep = "preview"
     THEN UNCHANGED previewVars
     ELSE selectedXColumn' = <<>> /\ selectedYColumn' = <<>>
  /\ IF currentStep = "chart" THEN EffectUnmount ELSE UNCHANGED sceneVars

\* handleDataProcess that takes the column names only and keeps the rest
handleDataProcessKeepingDisplay(processedData, config) ==
  /\ chartData' = processedData
  /\ chartConfig' = [chartConfig EXCEPT !.xColumn = config.xColumn,
                                        !.yColumn = config.yColumn]
  /\ currentStep' = "chart"
  /\ UNCHANGED rawData
  /\ EffectMount
  /\ charted' = TRUE
  /\ UNCHANGED <<deliveries, reconfigured>>

handleDataProcess(processedData, config) ==
  /\ chartData' = processedData
  /\ chartConfig' = config
  /\ currentStep' = "chart"
  /\ UNCHANGED rawData
  /\ EffectMount
  /\ charted' = TRUE
  /\ UNCHANGED <<deliveries, reconfigured>>

\* handleBackToUpload that keeps the Row Records
handleBackToUploadKeeping ==
  /\ currentStep = "preview"
  /\ chartData' = NULL
  /\ currentStep' = "upload"
  /\ UNCHANGED <<rawData, chartConfig>>
  /\ isProcessing' = FALSE
  /\ error' = NULL
  /\ success' = NULL
  /\ deliveries' = 0
  /\ charted' = FALSE
  /\ UNCHANGED reconfigured
  /\ UNCHANGED <<pending, previewVars, sceneVars>>

\* DataPreview's onBack; FileUpload is mounted again
handleBackToUpload ==
  /\ currentStep = "preview"
  /\ rawData' = <<>>
  /\ chartData' = NULL
  /\ currentStep' = "upload"
  /\ UNCHANGED chartConfig
  /\ isProcessing' = FALSE
  /\ error' = NULL
  /\ success' = NULL
  /\ deliveries' = 0
  /\ charted' = FALSE
  /\ UNCHANGED reconfigured
  /\ UNCHANGED <<pending, previewVars, sceneVars>>

\* handleBackToPreview that discards the Row Records as well
handleBackToPreviewDiscarding ==
  /\ currentStep = "chart"
  /\ chartData' = NULL
  /\ rawData' = <<>>
  /\ currentStep' = "preview"
  /\ UNCHANGED chartConfig
  /\ selectedXColumn' = <<>>
  /\ selectedYColumn' = <<>>
  /\ EffectUnmount
  /\ UNCHANGED <<uploadVars, histVars>>

\* ChartControls' onBack; DataPreview is mounted again
handleBackToPreview ==
  /\ currentStep = "chart"
  /\ chartData' = NULL
  /\ currentStep' = "preview"
  /\ UNCHANGED <<rawData, chartConfig>>
  /\ selectedXColumn' = <<>>
  /\ selectedYColumn' = <<>>
  /\ EffectUnmount
  /\ UNCHANGED <<uploadVars, histVars>>

(***************************************************************************)
(* FileUpload.                                                             *)
(***************************************************************************)
\* the controls that start a load are disabled while isProcessing
LoadEnabledAlways == currentStep = "upload"

LoadEnabled == currentStep = "upload" /\ ~isProcessing

\* a file is dropped or picked: processFile runs up to its await
onDrop(file) ==
  /\ LoadEnabled
  /\ Len(pending) < MaxPending
  /\ isProcessing' = TRUE
  /\ error' = NULL
  /\ success' = NULL
  /\ pending' = Append(pending, file)
  /\ UNCHANGED <<appVars, previewVars, sceneVars, histVars>>

\* the i-th suspended processFile resumes and runs to its end
processFile(i) ==
  /\ i \in 1..Len(pending)
  /\ pending' = SubSeq(pending, 1, i - 1) \o SubSeq(pending, i + 1, Len(pending))
  /\ LET result == TryProcessFile(pending[i])
     IN  IF result.ok
         THEN /\ success' = SuccessMessage(result.data)
              /\ error' = error
              /\ handleFileUpload(result.data)
         ELSE /\ error' = CatchMessage(result)
              /\ success' = success
              /\ UNCHANGED <<appVars, previewVars, sceneVars, histVars>>
  /\ isProcessing' = FALSE

loadSampleData ==
  /\ LoadEnabled
  /\ success' = SampleMessage
  /\ handleFileUpload(sampleData)
  /\ UNCHANGED <<isProcessing, error, pending>>

(***************************************************************************)
(* DataPreview.                                                            *)
(***************************************************************************)
\* the items of the two Selects, rendered while DataPreview is
XColumnItems ==
  IF currentStep = "preview" /\ Len(rawData) > 0
  THEN stringColumns(rawData) \cup numericColumns(rawData) ELSE {}

YColumnItems ==
  IF currentStep = "preview" /\ Len(rawData) > 0
  THEN numericColumns(rawData) ELSE {}

setSelectedXColumn(col) ==
  /\ currentStep = "preview"
  /\ selectedXColumn' = col
  /\ UNCHANGED <<appVars, uploadVars, selectedYColumn, sceneVars, histVars>>

setSelectedYColumn(col) ==
  /\ currentStep = "preview"
  /\ selectedYColumn' = col
  /\ UNCHANGED <<appVars, uploadVars, selectedXColumn, sceneVars, histVars>>

\* a non-empty text is truthy
canGenerateChart == selectedXColumn # <<>> /\ selectedYColumn # <<>>

\* generateChart without its early return, behind a button never disabled
generateChartUnchecked ==
  /\ currentStep = "preview"
  /\ sceneCount <= MaxScenes
  /\ handleDataProcess(BuildChartData(rawData, selectedXColumn, selectedYColumn),
                       NewConfig(selectedXColumn, selectedYColumn))
  /\ UNCHANGED <<uploadVars, previewVars>>

generateChart ==
  /\ currentStep = "preview"
  /\ canGenerateChart
  /\ sceneCount <= MaxScenes
  /\ handleDataProcess(BuildChartData(rawData, selectedXColumn, selectedYColumn),
                       NewConfig(selectedXColumn, selectedYColumn))
  /\ UNCHANGED <<uploadVars, previewVars>>

(***************************************************************************)
(* ChartControls.                                                          *)
(***************************************************************************)
\* updateConfig that rebuilds the configuration from the defaults
updateConfigFromDefaults(field, value) ==
  /\ currentStep = "chart"
  /\ sceneCount < MaxScenes
  /\ chartConfig' = MergeConfig(InitConfig, field, value)
  /\ UNCHANGED <<rawData, chartData, currentStep>>
  /\ EffectRerun
  /\ reconfigured' = TRUE
  /\ UNCHANGED <<uploadVars, previewVars, deliveries, charted>>

\* onConfigChange is setChartConfig: the new object reruns Chart3D's effect
updateConfig(field, value) ==
  /\ currentStep = "chart"
  /\ sceneCount < MaxScenes
  /\ chartConfig' = MergeConfig(chartConfig, field, value)
  /\ UNCHANGED <<rawData, chartData, currentStep>>
  /\ EffectRerun
  /\ reconfigured' = TRUE
  /\ UNCHANGED <<uploadVars, previewVars, deliveries, charted>>

Next ==
  \/ \E file \in Files : onDrop(file)
  \/ \E i \in 1..MaxPending : processFile(i)
  \/ loadSampleData
  \/ \E col \in XColumnItems : setSelectedXColumn(col)
  \/ \E col \in YColumnItems : setSelectedYColumn(col)
  \/ generateChart
  \/ handleBackToUpload
  \/ \E v \in ColorSchemes : updateConfig("colorScheme", v)
  \/ \E v \in HeightChoices : updateConfig("chartHeight", v)
  \/ \E v \in BOOLEAN : updateConfig("showGrid", v)
  \/ handleBackToPreview
  \/ \E s \in 1..MaxScenes + 1 : animate(s)

Spec == Init /\ [][Next]_vars

(***************************************************************************)
(* The Chart Data Builder over a space of Row Records: every list of at    *)
(* most MaxRows records with a category cell and a value cell, as a        *)
(* successful load leaves them in the preview stage.                       *)
(***************************************************************************)
ColC == <<"c">>
ColV == <<"v">>

CategoryCells == {Str(<<"a">>), Num(7)}

ValueCells ==
  { Str(<<>>), Str(<<"a">>), Str(<<"7">>), Str(<<"7", "a">>), Str(<<" ", "7">>),
    Str(<<"-", "7">>), Str(<<"-">>), Str(<<"0">>), Num(0), Num(7), Num(0 - 3) }

BuilderRecords == {(ColC :> c) @@ (ColV :> v) : c \in CategoryCells, v \in ValueCells}

BuilderData == UNION {[1..n -> BuilderRecords] : n \in 1..MaxRows}

InitBuilder ==
  /\ rawData \in BuilderData
  /\ chartData = NULL
  /\ chartConfig = InitConfig
  /\ currentStep = "preview"
  /\ isProcessing = FALSE
  /\ error = NULL
  /\ success = SuccessMessage(rawData)
  /\ pending = <<>>
  /\ selectedXColumn = <<>>
  /\ selectedYColumn = <<>>
  /\ scene = 0
  /\ sceneCount = 0
  /\ listeners = {}
  /\ canvases = {}
  /\ disposed = {}
  /\ loops = {}
  /\ deliveries = 1
  /\ charted = FALSE
  /\ reconfigured = FALSE

NextBuilder ==
  \/ \E col \in XColumnItems : setSelectedXColumn(col)
  \/ \E col \in YColumnItems : setSelectedYColumn(col)
  \/ generateChart

SpecBuilder == InitBuilder /\ [][NextBuilder]_vars

(***************************************************************************)
(* The Tabular Loader over a space of sheets: a header row and at most     *)
(* MaxRows data rows, dropped and suspended at the await of processFile.   *)
(***************************************************************************)
LoaderHeaderRows ==
  { <<>>,
    <<Str(<<"k">>), Str(<<"v">>)>>,
    <<Str(<<"k">>), Hole, Str(<<"v">>)>>,
    <<Hole, Str(<<"k">>)>>,
    <<Str(<<>>), Str(<<"k">>)>>,
    <<Num(7), Str(<<" ", "k", " ">>)>>,
    <<Str(<<"k">>), Str(<<"k", " ">>)>> }

LoaderDataRows ==
  { <<>>,
    <<Undef, Str(<<>>)>>,
    <<Str(<<"a">>)>>,
    <<Undef, Num(0)>>,
    <<Str(<<" ">>), NULL>>,
    <<Str(<<"a">>), Num(7), Str(<<"x">>)>> }

LoaderSheets ==
  {<<firstRow>> \o rows :
     firstRow \in LoaderHeaderRows,
     rows \in UNION {[1..n -> LoaderDataRows] : n \in 0..MaxRows}}

InitLoader ==
  /\ rawData = <<>>
  /\ chartData = NULL
  /\ chartConfig = InitConfig
  /\ currentStep = "upload"
  /\ isProcessing = TRUE
  /\ error = NULL
  /\ success = NULL
  /\ pending \in {<<Sheet(sheet)>> : sheet \in LoaderSheets}
  /\ selectedXColumn = <<>>
  /\ selectedYColumn = <<>>
  /\ scene = 0
  /\ sceneCount = 0
  /\ listeners = {}
  /\ canvases = {}
  /\ disposed = {}
  /\ loops = {}
  /\ deliveries = 0
  /\ charted = FALSE
  /\ reconfigured = FALSE

NextLoader == \E i \in 1..MaxPending : processFile(i)

SpecLoader == InitLoader /\ [][NextLoader]_vars

(***************************************************************************)
(* The stage components App renders.                                       *)
(***************************************************************************)
RenderedStages ==
  (IF currentStep = "upload" THEN {"FileUpload"} ELSE {})
    \cup (IF currentStep = "preview" /\ Len(rawData) > 0 THEN {"DataPreview"} ELSE {})
    \cup (IF currentStep = "chart" /\ chartData # NULL THEN {"Chart3D", "ChartControls"}
          ELSE {})

(***************************************************************************)
(* Properties.                                                             *)
(***************************************************************************)

\* C1: currentStep starts at 'upload' and every change of it is one of the
\* four transitions of the table, with that transition's side effect:
\* upload -> preview stores non-empty Row Records delivered by a load,
\* preview -> chart stores Chart Data and the Configuration of the chosen
\* columns, preview -> upload discards the Row Records, chart -> preview
\* discards the Chart Data and keeps the Row Records.
StepChangesByTable ==
  /\ currentStep = "upload"
  /\ [][currentStep' # currentStep =>
          \/ /\ currentStep = "upload" /\ currentStep' = "preview"
             /\ rawData' # <<>> /\ deliveries' = deliveries + 1
          \/ /\ currentStep = "preview" /\ currentStep' = "chart"
             /\ chartData' # NULL /\ rawData' = rawData
             /\ chartConfig'.xColumn = selectedXColumn
             /\ chartConfig'.yColumn = selectedYColumn
          \/ /\ currentStep = "preview" /\ currentStep' = "upload"
             /\ rawData' = <<>>
          \/ /\ currentStep = "chart" /\ currentStep' = "preview"
             /\ chartData' = NULL /\ rawData' = rawData /\ rawData' # <<>>]_vars

\* all four transitions have been taken: back at upload after a chart
AllTransitionsTaken ==
  currentStep = "upload" /\ sceneCount > 0 /\ rawData = <<>> /\ chartData = NULL

\* C2: exactly one stage is rendered: in 'preview' the Row Records are
\* non-empty and in 'chart' the Chart Data is non-null.
ExactlyOneStageRendered ==
  /\ currentStep = "preview" => Len(rawData) > 0
  /\ currentStep = "chart" => chartData # NULL
  /\ RenderedStages \in {{"FileUpload"}, {"DataPreview"}, {"Chart3D", "ChartControls"}}

ChartStageRendered ==
  currentStep = "chart" /\ RenderedStages = {"Chart3D", "ChartControls"}

\* C3 as stated: a file loaded and then back, with no chart generated in
\* between, leaves the controller in its initial state, the Chart
\* Configuration at its initial defaults included.
RoundTripRestoresInitialState ==
  [][(currentStep = "preview" /\ ~charted /\ currentStep' = "upload") =>
       /\ rawData' = <<>>
       /\ chartData' = NULL
       /\ chartConfig' = InitConfig]_vars

\* C3 as amended: the round trip upload -> preview -> upload leaves the Row
\* Records empty, the Chart Data null and currentStep 'upload', and no step
\* of it touches the Chart Configuration, which is the initial defaults as
\* long as no chart was ever generated.
RoundTripKeepsConfiguration ==
  /\ [][(currentStep = "upload" /\ currentStep' = "preview") =>
          chartData' = NULL /\ chartConfig' = chartConfig]_vars
  /\ [][(currentStep = "preview" /\ currentStep' = "preview") =>
          chartData' = NULL /\ chartConfig' = chartConfig]_vars
  /\ [][(currentStep = "preview" /\ currentStep' = "upload") =>
          /\ rawData' = <<>>
          /\ chartData' = NULL
          /\ chartConfig' = chartConfig
          /\ (sceneCount = 0 => chartConfig' = InitConfig)]_vars

\* back at upload with the configuration of an earlier chart still stored
RoundTripWithStaleConfiguration ==
  /\ currentStep = "upload" /\ rawData = <<>> /\ chartData = NULL
  /\ chartConfig # InitConfig

\* the cases of a failing load: the read throws, the sheet has no row, or
\* no row after the header has a cell that is neither missing nor ''
IsFailingFile(file) ==
  \/ file.throws # "none"
  \/ Len(file.sheet) = 0
  \/ \A r \in 2..Len(file.sheet) :
       \A k \in 1..Len(file.sheet[r]) :
         file.sheet[r][k] \in {Undef, NULL, Str(<<>>)}

\* C4: a failing load ends with the error set, no success message, the
\* in-flight flag cleared, no onFileUpload call, and the controller in
\* 'upload' with its Row Records unchanged.
FailingLoadIsCaught ==
  [][\A i \in 1..Len(pending) :
       ( /\ Len(pending') = Len(pending) - 1
         /\ pending' = SubSeq(pending, 1, i - 1) \o SubSeq(pending, i + 1, Len(pending))
         /\ IsFailingFile(pending[i]) ) =>
       /\ error' # NULL
       /\ success' = NULL
       /\ isProcessing' = FALSE
       /\ deliveries' = deliveries
       /\ currentStep' = "upload"
       /\ rawData' = rawData]_vars

HeaderOnlyFileRejected ==
  /\ error = NoRowsMessage /\ success = NULL /\ ~isProcessing
  /\ pending = <<>> /\ currentStep = "upload" /\ rawData = <<>>

\* C5: after the cleanup of a scene its animate callback is scheduled no
\* more, and at most one redraw loop is live.
RedrawLoopCancelledOnTeardown ==
  /\ loops \cap disposed = {}
  /\ Cardinality(loops) <= 1

EventTypes == {"mousedown", "mousemove", "mouseup", "wheel", "resize"}

\* C6: the registered listeners and the attached canvases are exactly those
\* of the current scene while Chart3D is mounted, and none otherwise.
ListenersReleasedWithScene ==
  /\ (currentStep = "chart") = (scene # 0)
  /\ scene # 0 =>
       /\ listeners = {<<e, scene>> : e \in EventTypes}
       /\ canvases = {scene}
       /\ scene \notin disposed
  /\ scene = 0 => listeners = {} /\ canvases = {}

UnmountedAfterReconfiguration ==
  scene = 0 /\ sceneCount >= 2 /\ listeners = {} /\ canvases = {}

\* C7: at most one load is in flight, a load starts only when none is,
\* and onFileUpload is delivered at most once per visit to the upload stage
\* and only while currentStep is 'upload'.
LoadsNeverOverlap ==
  /\ [](Len(pending) <= 1 /\ deliveries <= 1 /\ (isProcessing => currentStep = "upload"))
  /\ [][Len(pending') > Len(pending) => pending = <<>> /\ ~isProcessing]_vars
  /\ [][deliveries' > deliveries =>
          currentStep = "upload" /\ deliveries = 0 /\ pending' = <<>>]_vars

LoadInFlight ==
  isProcessing /\ Len(pending) = 1 /\ currentStep = "upload" /\ sceneCount > 0

ReconfigurationFrame ==
  [][( /\ currentStep = "chart" /\ currentStep' = "chart"
       /\ (chartConfig' # chartConfig \/ sceneCount' # sceneCount) ) =>
       /\ rawData' = rawData
       /\ chartData' = chartData
       /\ chartConfig'.xColumn = chartConfig.xColumn
       /\ chartConfig'.yColumn = chartConfig.yColumn
       /\ Cardinality({f \in {"colorScheme", "showGrid", "chartHeight"} :
                         chartConfig'[f] # chartConfig[f]}) <= 1
       /\ sceneCount' = sceneCount + 1
       /\ scene' = sceneCount'
       /\ scene \notin disposed
       /\ disposed' = disposed \cup {scene}
       /\ canvases' = {scene'}]_vars

Reconfigured ==
  /\ currentStep = "chart" /\ sceneCount = 2 /\ scene = 2 /\ 1 \in disposed
  /\ chartConfig.colorScheme = "red"
  /\ chartConfig.xColumn # <<>>

\* C10: labels and values have the length of the Row Records, entry i
\* comes from row i, and values[i] is the parsed value cell, or 0 when the
\* cell does not parse.
OneBarPerRow ==
  currentStep = "chart" =>
    /\ Len(chartData.labels) = Len(rawData)
    /\ Len(chartData.values) = Len(rawData)
    /\ \A i \in 1..Len(rawData) :
         /\ chartData.labels[i] = StringOf(rawData[i][chartConfig.xColumn])
         /\ chartData.values[i] =
              IF isNaN(parseFloat(rawData[i][chartConfig.yColumn])) THEN 0
              ELSE parseFloat(rawData[i][chartConfig.yColumn]).n

\* two rows with the same label, one value parsed, the other zero-filled
RepeatedLabelAndZeroFill ==
  /\ currentStep = "chart" /\ Len(rawData) = 2
  /\ chartData.labels[1] = chartData.labels[2]
  /\ chartData.values[1] = 7
  /\ isNaN(parseFloat(rawData[2][chartConfig.yColumn]))
  /\ chartData.values[2] = 0

\* the height b is a number and is at most h
HeightAtMost(b, h) == b.t = "-inf" \/ (b.t = "ratio" /\ b.num <= h * b.den)
\* the height b is exactly h
HeightIs(b, h) == b.t = "ratio" /\ b.num = h * b.den

\* C11: in 'chart' the tallest bar is exactly as tall as the configured
\* height factor: some bar has that height and no bar is taller, whatever
\* the values (all zero and negative ones included).
TallestBarHasConfiguredHeight ==
  currentStep = "chart" =>
    LET heights == BarHeights(chartData, chartConfig)
    IN  /\ \E k \in DOMAIN heights : HeightIs(heights[k], chartConfig.chartHeight)
        /\ \A k \in DOMAIN heights : HeightAtMost(heights[k], chartConfig.chartHeight)

\* a fully-blank row: every cell is missing or the empty text
IsBlankRow(row) == \A k \in 1..Len(row) : row[k] \in {Undef, NULL, Str(<<>>)}

\* the name of header column j: the trimmed header, or the placeholder
\* indexed by position when the header is blank or missing
HeaderColumnName(firstRow, j) ==
  IF firstRow[j] \in {Hole, Undef, NULL, Str(<<>>)}
  THEN <<"C", "o", "l", "u", "m", "n", "_">> \o IntToStr(j)
  ELSE Trim(StringOf(firstRow[j]))

\* C12: a sheet with a header row and a data row that is not fully blank
\* is delivered as one Row Record per row that is not fully blank, in
\* order; every Row Record has the name of every column of the header row
\* as a key, and where the row has no cell for the column (the last of its
\* name) the record holds the empty text.
LoaderKeepsRowsAndColumns ==
  [][( /\ Len(pending) = 1 /\ pending' = <<>>
       /\ pending[1].throws = "none"
       /\ Len(pending[1].sheet) > 0
       /\ \E r \in 2..Len(pending[1].sheet) : ~IsBlankRow(pending[1].sheet[r]) ) =>
       LET sheet == pending[1].sheet
           firstRow == sheet[1]
           kept == SelectSeq(Tail(sheet), LAMBDA row : ~IsBlankRow(row))
           name(j) == HeaderColumnName(firstRow, j)
       IN  /\ deliveries' = deliveries + 1
           /\ Len(rawData') = Len(sheet) - 1 - (Len(sheet) - 1 - Len(kept))
           /\ \A i \in 1..Len(rawData') : \A j \in 1..Len(firstRow) :
                 /\ name(j) \in DOMAIN rawData'[i]
                 /\ ( /\ \A l \in j + 1..Len(firstRow) : name(l) # name(j)
                      /\ (j > Len(kept[i]) \/ kept[i][j] \in {Undef, NULL}) ) =>
                      rawData'[i][name(j)] = Str(<<>>)]_vars

\* the cell is a number, or a text that is, white space at its ends apart,
\* a decimal numeral: an optional minus sign and one or more digits
ParsesAsFiniteNumber(cell) ==
  \/ cell.t = "num"
  \/ /\ cell.t = "str"
     /\ \E from \in 1..Len(cell.s) : \E to \in from..Len(cell.s) :
          /\ \A k \in 1..Len(cell.s) : (k < from \/ k > to) => cell.s[k] = " "
          /\ LET first == IF cell.s[from] = "-" THEN from + 1 ELSE from
             IN  first <= to /\ \A k \in first..to : IsDigit(cell.s[k])

\* C13: in 'preview' a column is numeric exactly when one of its values
\* over all Row Records parses as a finite number, the text columns are
\* the other columns of the first record, and the classification is a
\* function of the Row Records: it is the same after any step that leaves
\* them as they are.
NumericIffSomeValueParses ==
  /\ [](currentStep = "preview" =>
          /\ \A col \in DOMAIN rawData[1] :
                (col \in numericColumns(rawData)) =
                  (\E i \in 1..Len(rawData) : ParsesAsFiniteNumber(rawData[i][col]))
          /\ numericColumns(rawData) \cup stringColumns(rawData) = DOMAIN rawData[1]
          /\ numericColumns(rawData) \cap stringColumns(rawData) = {}
          /\ YColumnItems = numericColumns(rawData)
          /\ XColumnItems = DOMAIN rawData[1])
  /\ [][(currentStep = "preview" /\ currentStep' = "preview" /\ rawData' = rawData) =>
          /\ numericColumns(rawData') = numericColumns(rawData)
          /\ stringColumns(rawData') = stringColumns(rawData)]_vars

\* a value column made numeric by its second row alone, the first being a
\* text with a numeric prefix, chosen as the value column
NumericBySecondRow ==
  /\ currentStep = "preview" /\ Len(rawData) = 2
  /\ rawData[1][ColV] = Str(<<"7", "a">>)
  /\ rawData[2][ColV] = Str(<<" ", "7">>)
  /\ rawData[1][ColC] = Str(<<"a">>) /\ rawData[2][ColC] = Str(<<"a">>)
  /\ numericColumns(rawData) = {ColV}
  /\ stringColumns(rawData) = {ColC}
  /\ selectedYColumn = ColV

\* C14: while a selection is empty no step leaves 'preview' for 'chart' or
\* stores Chart Data; the step preview -> chart is taken with both columns
\* chosen, and the value column chosen is one the classifier marked
\* numeric for the stored Row Records.
ChartOnlyWithBothColumns ==
  /\ [][(currentStep = "preview" /\ (selectedXColumn = <<>> \/ selectedYColumn = <<>>)) =>
          currentStep' # "chart" /\ chartData' = chartData /\ chartData' = NULL]_vars
  /\ [][(currentStep = "preview" /\ currentStep' = "chart") =>
          /\ selectedXColumn # <<>> /\ selectedYColumn # <<>>
          /\ chartConfig'.xColumn = selectedXColumn
          /\ chartConfig'.yColumn = selectedYColumn
          /\ selectedXColumn \in DOMAIN rawData[1]
          /\ selectedYColumn \in numericColumns(rawData)]_vars
  /\ []((currentStep = "preview" /\ selectedYColumn # <<>>) =>
          selectedYColumn \in numericColumns(rawData))

\* a chart of the dropped file whose value column is numeric by one row
ChartOfNumericColumn ==
  /\ currentStep = "chart" /\ Len(rawData) = 2
  /\ chartConfig.xColumn = <<"k">> /\ chartConfig.yColumn = <<"v">>
  /\ selectedYColumn = <<"v">>
  /\ chartData.values = <<7, 7>>

\* C15: the colour scheme is one of the five offered, the height factor
\* an integer of 5..20 and the grid flag a boolean in every state; in
\* 'chart' the two column names are non-empty columns of the Row Records.
ConfigurationAlwaysLegal ==
  /\ chartConfig.colorScheme \in {"blue", "green", "purple", "orange", "red"}
  /\ chartConfig.chartHeight \in 5..20
  /\ chartConfig.showGrid \in BOOLEAN
  /\ currentStep = "chart" =>
       /\ chartConfig.xColumn # <<>> /\ chartConfig.yColumn # <<>>
       /\ Len(rawData) > 0
       /\ chartConfig.xColumn \in DOMAIN rawData[1]
       /\ chartConfig.yColumn \in DOMAIN rawData[1]

\* in 'chart', the slider moved to its upper end
SliderAtUpperEnd ==
  /\ currentStep = "chart" /\ chartConfig.chartHeight = 20
  /\ chartConfig.colorScheme = "blue" /\ chartConfig.showGrid
  /\ chartConfig.xColumn = Product /\ chartConfig.yColumn = Q4

RECURSIVE SumOf(_)
SumOf(xs) == IF xs = <<>> THEN 0 ELSE Head(xs) + SumOf(Tail(xs))

\* C16: in 'chart' there is one bar per value, adjacent bars are 1.2 apart
\* along x (12 tenths), and the x positions are symmetric about 0: they
\* add up to zero.
BarsEvenlySpacedAndCentered ==
  currentStep = "chart" =>
    LET xs == BarPositions(chartData)
    IN  /\ Len(xs) = Len(chartData.values)
        /\ \A k \in 1..Len(xs) - 1 : xs[k + 1] - xs[k] = 12
        /\ SumOf(xs) = 0

\* C17: every step into 'chart' stores the default display configuration
\* ('blue', grid shown, height 10) with the columns just chosen, whatever
\* the configuration stored before; and a step that ends outside 'chart'
\* leaves the stored configuration as it is, so the configuration of the
\* last visit stays in 'preview' and in 'upload'.
ChartEntryStartsFromDefaults ==
  /\ [][(currentStep # "chart" /\ currentStep' = "chart") =>
          chartConfig' = [xColumn |-> selectedXColumn, yColumn |-> selectedYColumn,
                          colorScheme |-> "blue", showGrid |-> TRUE,
                          chartHeight |-> 10]]_vars
  /\ [][currentStep' # "chart" => chartConfig' = chartConfig]_vars

\* 'chart' entered again after a visit in which the configuration was changed
ChartEnteredAgainAfterReconfiguration ==
  /\ currentStep = "chart" /\ reconfigured
  /\ scene = 3 /\ sceneCount = 3 /\ disposed = {1, 2}
  /\ chartConfig.colorScheme = "blue" /\ chartConfig.showGrid
  /\ chartConfig.chartHeight = 10
  /\ chartConfig.xColumn = selectedXColumn /\ chartConfig.yColumn = selectedYColumn

=============================================================================
